---- MODULE Spec2Model ----
(***************************************************************************)
(* A model of process_pdfs.py: the batch loop main(), the per-document     *)
(* pipeline process_pdf_simple() and the heuristics it calls.              *)
(*                                                                         *)
(* Representation.                                                         *)
(*  - A Python str is a sequence of one-character strings, so that         *)
(*    indexing, slicing, strip(), lower() and the code-point order of      *)
(*    str comparison are computed rather than assumed.  The alphabet is    *)
(*    printable ASCII; its only whitespace character is the space.         *)
(*  - A font size is an integer number of half points (22 is 11.0pt,       *)
(*    21 is 10.5pt), so that round() is not the identity.                  *)
(*  - A local variable that is not yet bound is the empty sequence and a   *)
(*    bound one is a one-element sequence holding its value.               *)
(*  - A loop over a list is a recursion over the index, and a value that   *)
(*    the code computes once and reads many times is bound once with       *)
(*    Bind, so that TLC evaluates it once also when it computes ENABLED.   *)
(***************************************************************************)
EXTENDS Integers, Sequences, FiniteSets, TLC

(***************************************************************************)
(* Bounds of the model.                                                    *)
(***************************************************************************)
\* the number of text blocks read from one document, over all its pages
MaxBlocks == 2
\* the number of pages of one document
MaxPages == 2

(***************************************************************************)
(* Characters and strings.                                                 *)
(***************************************************************************)
\* F(v), with v evaluated once
Bind(v, F(_)) == CHOOSE r \in {F(x) : x \in {v}} : TRUE

\* code points 32..126 in order; the entry "grave" stands at code point 96, which
\* no text of the model uses
AsciiTable == <<" ", "!", "\"", "#", "$", "%", "&", "'", "(", ")", "*", "+", ",", "-", ".", "/", "0", "1", "2", "3", "4", "5", "6", "7", "8", "9", ":", ";", "<", "=", ">", "?", "@", "A", "B", "C", "D", "E", "F", "G", "H", "I", "J", "K", "L", "M", "N", "O", "P", "Q", "R", "S", "T", "U", "V", "W", "X", "Y", "Z", "[", "\\", "]", "^", "_", "grave", "a", "b", "c", "d", "e", "f", "g", "h", "i", "j", "k", "l", "m", "n", "o", "p", "q", "r", "s", "t", "u", "v", "w", "x", "y", "z", "{", "|", "}", "~">>

Chars == {AsciiTable[i] : i \in 1..Len(AsciiTable)}

\* ord(c)
Ord == [c \in Chars |-> 31 + (CHOOSE i \in 1..Len(AsciiTable) : AsciiTable[i] = c)]

\* chr(n)
Chr(n) == AsciiTable[n - 31]

IsDigit(c) == Ord[c] >= 48 /\ Ord[c] <= 57
IsUpperCh(c) == Ord[c] >= 65 /\ Ord[c] <= 90
IsLowerCh(c) == Ord[c] >= 97 /\ Ord[c] <= 122
IsSpace(c) == c = " "

LowerCh(c) == IF IsUpperCh(c) THEN Chr(Ord[c] + 32) ELSE c

\* str.lower()
Lower(s) == [i \in 1..Len(s) |-> LowerCh(s[i])]

\* the index of the last character of s[1..i] that is no whitespace, 0 if none
RECURSIVE LastNonSpace(_, _)
LastNonSpace(s, i) == IF i >= 1 /\ IsSpace(s[i]) THEN LastNonSpace(s, i - 1) ELSE i

\* the index of the first character of s[i..] that is no whitespace, Len(s) + 1 if none
RECURSIVE FirstNonSpace(_, _)
FirstNonSpace(s, i) == IF i <= Len(s) /\ IsSpace(s[i]) THEN FirstNonSpace(s, i + 1) ELSE i

\* str.strip()
Strip(s) == Bind(s, LAMBDA t : SubSeq(t, FirstNonSpace(t, 1), LastNonSpace(t, Len(t))))

\* str.startswith(p)
StartsWith(s, p) == Len(s) >= Len(p) /\ SubSeq(s, 1, Len(p)) = p

\* str.endswith(p)
EndsWith(s, p) == Len(s) >= Len(p) /\ SubSeq(s, Len(s) - Len(p) + 1, Len(s)) = p

\* sub in s
Contains(s, sub) ==
    Bind(s, LAMBDA t : \E i \in 0..(Len(t) - Len(sub)) : SubSeq(t, i + 1, i + Len(sub)) = sub)

\* str.isupper(): some cased character, and no lowercase one
IsUpperStr(s) == (\E i \in 1..Len(s) : IsUpperCh(s[i])) /\ (\A i \in 1..Len(s) : ~IsLowerCh(s[i]))

\* a < b for two str, by code points
StrLess(a, b) ==
    LET n == IF Len(a) < Len(b) THEN Len(a) ELSE Len(b)
        diff == {i \in 1..n : a[i] # b[i]}
    IN IF diff = {} THEN Len(a) < Len(b)
       ELSE LET k == CHOOSE i \in diff : \A j \in diff : i <= j
            IN Ord[a[k]] < Ord[b[k]]

\* the join of parts[i..]
RECURSIVE JoinFrom(_, _, _)
JoinFrom(sep, parts, i) ==
    IF i > Len(parts) THEN <<>>
    ELSE IF i = Len(parts) THEN parts[i]
    ELSE parts[i] \o sep \o JoinFrom(sep, parts, i + 1)

\* " ".join(parts), and "".join(parts) with the empty separator
Join(sep, parts) == Bind(parts, LAMBDA p : JoinFrom(sep, p, 1))

(***************************************************************************)
(* The regular expressions.  Each operator is re.match of the pattern at   *)
(* the start of s; a prefix match is enough.                               *)
(***************************************************************************)
\* the index just past the longest run of digits that starts at i
RECURSIVE DigitsEnd(_, _)
DigitsEnd(s, i) == IF i <= Len(s) /\ IsDigit(s[i]) THEN DigitsEnd(s, i + 1) ELSE i

\* the index just past the longest run of whitespace that starts at i
SpacesEnd(s, i) == FirstNonSpace(s, i)

\* \s+(.+) at index i: one whitespace character, then any character
SpacesThenRest(s, i) == i < Len(s) /\ IsSpace(s[i])

\* ^(\d+)\.?\s+(.+)
NUMBERED_PATTERN(s) ==
    LET d == DigitsEnd(s, 1)
    IN /\ d > 1
       /\ \/ SpacesThenRest(s, d)
          \/ d <= Len(s) /\ s[d] = "." /\ SpacesThenRest(s, d + 1)

\* ^(\d+\.\d+)\s+(.+)
SUB_NUMBERED_PATTERN(s) ==
    LET d1 == DigitsEnd(s, 1)
        d2 == DigitsEnd(s, d1 + 1)
    IN /\ d1 > 1
       /\ d1 <= Len(s) /\ s[d1] = "."
       /\ d2 > d1 + 1
       /\ SpacesThenRest(s, d2)

\* ^(\d+\.\d+\.\d+)\s+(.+)
SUB_SUB_NUMBERED_PATTERN(s) ==
    LET d1 == DigitsEnd(s, 1)
        d2 == DigitsEnd(s, d1 + 1)
        d3 == DigitsEnd(s, d2 + 1)
    IN /\ d1 > 1
       /\ d1 <= Len(s) /\ s[d1] = "."
       /\ d2 > d1 + 1
       /\ d2 <= Len(s) /\ s[d2] = "."
       /\ d3 > d2 + 1
       /\ SpacesThenRest(s, d3)

\* ^(Appendix\s+[A-Z]:?\s*.+), ignoring case
APPENDIX_PATTERN(s) ==
    LET q == SpacesEnd(s, 9)
    IN /\ Len(s) >= 8
       /\ Lower(SubSeq(s, 1, 8)) = <<"a", "p", "p", "e", "n", "d", "i", "x">>
       /\ q > 9
       /\ q <= Len(s) /\ (IsUpperCh(s[q]) \/ IsLowerCh(s[q]))
       /\ Len(s) > q

\* ^\d+\.\s+[A-Z][a-z]
FormFieldShape(s) ==
    LET d == DigitsEnd(s, 1)
        q == SpacesEnd(s, d + 1)
    IN /\ d > 1
       /\ d <= Len(s) /\ s[d] = "."
       /\ q > d + 1
       /\ q < Len(s)
       /\ IsUpperCh(s[q])
       /\ IsLowerCh(s[q + 1])

KNOWN_H1_HEADINGS ==
    { <<"r", "e", "v", "i", "s", "i", "o", "n", " ", "h", "i", "s", "t", "o", "r", "y">>,
      <<"t", "a", "b", "l", "e", " ", "o", "f", " ", "c", "o", "n", "t", "e", "n", "t", "s">>,
      <<"a", "c", "k", "n", "o", "w", "l", "e", "d", "g", "e", "m", "e", "n", "t", "s">>,
      <<"r", "e", "f", "e", "r", "e", "n", "c", "e", "s">>,
      <<"s", "u", "m", "m", "a", "r", "y">>,
      <<"b", "a", "c", "k", "g", "r", "o", "u", "n", "d">>,
      <<"p", "a", "t", "h", "w", "a", "y", " ", "o", "p", "t", "i", "o", "n", "s">> }

(***************************************************************************)
(* The heuristics.                                                         *)
(***************************************************************************)
\* the result None of simple_heading_detection
None == "None"

\* bold and size > body_size + 2, with size in half points
FontRule(size, bold, body_size) == bold /\ size > 2 * (body_size + 2)

\* a changed AfterColonRule: the font rule is tried before the text rules
AfterColonRule_FontFirst(text_clean, text_lower, size, bold, body_size) ==
    IF FontRule(size, bold, body_size) THEN "H2"
    ELSE IF StartsWith(text_lower, <<"p", "h", "a", "s", "e", " ">>) THEN "H3"
    ELSE IF IsUpperStr(text_clean) /\ 5 <= Len(text_clean) /\ Len(text_clean) <= 30 THEN "H1"
    ELSE None

\* rules 5 to 7 and the final return of simple_heading_detection
AfterColonRule(text_clean, text_lower, size, bold, body_size) ==
    IF StartsWith(text_lower, <<"p", "h", "a", "s", "e", " ">>) THEN "H3"
    ELSE IF IsUpperStr(text_clean) /\ 5 <= Len(text_clean) /\ Len(text_clean) <= 30 THEN "H1"
    ELSE IF FontRule(size, bold, body_size) THEN "H2"
    ELSE None

\* a changed LevelOf: the colon rule ends the chain, a text of 40 to 49 characters
\* that ends with ":" gets no level
LevelOf_ColonTerminal(text_clean, text_lower, size, bold, body_size) ==
    IF SUB_SUB_NUMBERED_PATTERN(text_clean) THEN "H3"
    ELSE IF SUB_NUMBERED_PATTERN(text_clean) THEN "H2"
    ELSE IF NUMBERED_PATTERN(text_clean) THEN "H1"
    ELSE IF APPENDIX_PATTERN(text_clean) THEN "H2"
    ELSE IF text_lower \in KNOWN_H1_HEADINGS THEN "H1"
    ELSE IF EndsWith(text_clean, <<":">>) /\ Len(text_clean) < 50
    THEN IF StartsWith(text_lower, <<"f", "o", "r", " ", "e", "a", "c", "h">>) THEN "H4"
         ELSE IF Len(text_clean) < 40 THEN "H3"
         ELSE None
    ELSE AfterColonRule(text_clean, text_lower, size, bold, body_size)

\* the chain of rules of simple_heading_detection
LevelOf(text_clean, text_lower, size, bold, body_size) ==
    IF SUB_SUB_NUMBERED_PATTERN(text_clean) THEN "H3"
    ELSE IF SUB_NUMBERED_PATTERN(text_clean) THEN "H2"
    ELSE IF NUMBERED_PATTERN(text_clean) THEN "H1"
    ELSE IF APPENDIX_PATTERN(text_clean) THEN "H2"
    ELSE IF text_lower \in KNOWN_H1_HEADINGS THEN "H1"
    ELSE IF EndsWith(text_clean, <<":">>) /\ Len(text_clean) < 50
            /\ StartsWith(text_lower, <<"f", "o", "r", " ", "e", "a", "c", "h">>) THEN "H4"
    ELSE IF EndsWith(text_clean, <<":">>) /\ Len(text_clean) < 50
            /\ text_lower \in { <<"t", "i", "m", "e", "l", "i", "n", "e", ":">>,
                                <<"m", "i", "l", "e", "s", "t", "o", "n", "e", "s", ":">> } THEN "H3"
    ELSE IF EndsWith(text_clean, <<":">>) /\ Len(text_clean) < 50
            /\ Len(text_clean) < 40 THEN "H3"
    ELSE AfterColonRule(text_clean, text_lower, size, bold, body_size)

simple_heading_detection(text, size, bold, body_size) ==
    Bind(Strip(text), LAMBDA text_clean :
        Bind(Strip(Lower(text_clean)), LAMBDA text_lower :
            LevelOf(text_clean, text_lower, size, bold, body_size)))

\* the filters and the indicators of is_likely_heading
Gate(text, text_lower, size, bold, body_size) ==
    IF Len(text) < 3 \/ Len(text) > 200 THEN FALSE
    ELSE IF Contains(text, <<".", " ">>) /\ Len(text) > 50 THEN FALSE
    ELSE IF FormFieldShape(text) THEN FALSE
    ELSE IF NUMBERED_PATTERN(text) \/ SUB_NUMBERED_PATTERN(text)
            \/ SUB_SUB_NUMBERED_PATTERN(text) \/ APPENDIX_PATTERN(text) THEN TRUE
    ELSE IF text_lower \in KNOWN_H1_HEADINGS THEN TRUE
    ELSE IF EndsWith(text, <<":">>) /\ Len(text) < 50 THEN TRUE
    ELSE IF StartsWith(text_lower, <<"p", "h", "a", "s", "e", " ">>) THEN TRUE
    ELSE IF IsUpperStr(text) /\ 5 <= Len(text) /\ Len(text) <= 30 THEN TRUE
    ELSE FontRule(size, bold, body_size)

is_likely_heading(text0, size, bold, body_size) ==
    Bind(Strip(text0), LAMBDA text :
        Bind(Strip(Lower(text)), LAMBDA text_lower :
            Gate(text, text_lower, size, bold, body_size)))

\* round(size) for a size in half points: Python rounds a tie to the even integer
Round(size) ==
    LET q == size \div 2
    IN IF size % 2 = 0 THEN q
       ELSE IF q % 2 = 0 THEN q ELSE q + 1

\* Counter(sizes).most_common(1)[0][0]: the most frequent value, the one counted
\* first among the values of the greatest count
MostCommon(sizes) ==
    LET Count(v) == Cardinality({i \in 1..Len(sizes) : sizes[i] = v})
        First(v) == CHOOSE i \in 1..Len(sizes) : sizes[i] = v /\ \A j \in 1..(i - 1) : sizes[j] # v
        best == CHOOSE i \in 1..Len(sizes) :
                    /\ First(sizes[i]) = i
                    /\ \A j \in 1..Len(sizes) :
                          \/ Count(sizes[j]) < Count(sizes[i])
                          \/ Count(sizes[j]) = Count(sizes[i]) /\ First(sizes[j]) >= i
    IN sizes[best]

\* [round(line["size"]) for line in lines[i:] if len(line["text"]) > 10], and the
\* same list without the condition
RECURSIVE RoundedSizes(_, _, _)
RoundedSizes(lines, longOnly, i) ==
    IF i > Len(lines) THEN <<>>
    ELSE (IF ~longOnly \/ Len(lines[i].text) > 10 THEN <<Round(lines[i].size)>> ELSE <<>>)
         \o RoundedSizes(lines, longOnly, i + 1)

get_body_size(lines) ==
    Bind(RoundedSizes(lines, TRUE, 1), LAMBDA long :
        Bind(IF long = <<>> THEN RoundedSizes(lines, FALSE, 1) ELSE long, LAMBDA sizes :
            IF sizes = <<>> THEN 12 ELSE MostCommon(sizes)))

\* lines[:20]
FirstLines(lines) == SubSeq(lines, 1, IF Len(lines) < 20 THEN Len(lines) ELSE 20)

form_keywords ==
    << <<"a", "p", "p", "l", "i", "c", "a", "t", "i", "o", "n", " ", "f", "o", "r", "m">>,
       <<"g", "r", "a", "n", "t">>,
       <<"l", "t", "c", " ", "a", "d", "v", "a", "n", "c", "e">> >>

detect_form_document(lines) ==
    Bind(FirstLines(lines), LAMBDA first :
        Bind(Join(<<" ">>, [i \in 1..Len(first) |-> Lower(first[i].text)]), LAMBDA first_20_text :
            Cardinality({k \in 1..Len(form_keywords) : Contains(first_20_text, form_keywords[k])}) >= 2))

\* a changed CandidateLess: the tuples are compared by the score and, on a tie, the
\* other way round by the text
CandidateLess_TieReversed(c1, c2) == c1[1] < c2[1] \/ (c1[1] = c2[1] /\ StrLess(c2[2], c1[2]))

\* (s1, t1) < (s2, t2) for two (score, text) tuples
CandidateLess(c1, c2) == c1[1] < c2[1] \/ (c1[1] = c2[1] /\ StrLess(c1[2], c2[2]))

\* the (score, text) tuples that simple_title_extraction collects
TitleCandidates(first_page_lines) ==
    { <<first_page_lines[i].size + (IF first_page_lines[i].bold THEN 20 ELSE 0), first_page_lines[i].text>> :
        i \in {j \in 1..Len(first_page_lines) :
                 first_page_lines[j].bbox[2] < 200 /\ Len(first_page_lines[j].text) >= 5} }

simple_title_extraction(first_page_lines, filename) ==
    IF filename = <<"f", "i", "l", "e", "0", "5">> THEN <<>>
    ELSE IF first_page_lines = <<>> THEN filename
    ELSE Bind(TitleCandidates(first_page_lines), LAMBDA candidates :
            IF candidates # {}
            THEN Strip((CHOOSE c \in candidates : \A d \in candidates : ~CandidateLess(c, d))[2])
            ELSE filename)

\* [line for line in lines[i:] if line["page"] == 1]
RECURSIVE FirstPageFrom(_, _)
FirstPageFrom(lines, i) ==
    IF i > Len(lines) THEN <<>>
    ELSE (IF lines[i].page = 1 THEN <<lines[i]>> ELSE <<>>) \o FirstPageFrom(lines, i + 1)

\* [line for line in all_lines if line["page"] == 1]
FirstPage(lines) == FirstPageFrom(lines, 1)

(***************************************************************************)
(* Text extraction.  A block of a page is a record with a field "lines"    *)
(* (a text block) or without one (an image block); a line of a block has   *)
(* its spans and its bounding box.                                         *)
(***************************************************************************)
\* the first of the spans with the longest text
MainSpan(spans) ==
    spans[CHOOSE i \in 1..Len(spans) :
            /\ \A j \in 1..Len(spans) : Len(spans[j].text) <= Len(spans[i].text)
            /\ \A j \in 1..(i - 1) : Len(spans[j].text) < Len(spans[i].text)]

\* one iteration of the loop over block["lines"]
ExtractLine(line, pageNo) ==
    IF line.spans = <<>> THEN <<>>
    ELSE Bind(Strip(Join(<<>>, [i \in 1..Len(line.spans) |-> line.spans[i].text])), LAMBDA text :
            IF Len(text) < 2 THEN <<>>
            ELSE << [text |-> text,
                     size |-> MainSpan(line.spans).size,
                     bold |-> (MainSpan(line.spans).flags \div 16) % 2 = 1,
                     bbox |-> line.bbox,
                     page |-> pageNo] >>)

\* the loop over block["lines"], from the i-th line on
RECURSIVE ExtractLines(_, _, _)
ExtractLines(lines, pageNo, i) ==
    IF i > Len(lines) THEN <<>>
    ELSE ExtractLine(lines[i], pageNo) \o ExtractLines(lines, pageNo, i + 1)

\* one iteration of the loop over the blocks of a page, with the page number set
extract_simple_lines(block, pageNo) ==
    IF "lines" \notin DOMAIN block THEN <<>>
    ELSE ExtractLines(block.lines, pageNo, 1)

(***************************************************************************)
(* The heading pipeline of process_pdf_simple.                             *)
(***************************************************************************)
\* a changed HeadingOf: the gate is_likely_heading is not asked
HeadingOf_NoGate(line, body_size) ==
    IF simple_heading_detection(line.text, line.size, line.bold, body_size) # None
    THEN << [level |-> simple_heading_detection(line.text, line.size, line.bold, body_size),
             text |-> Strip(line.text) \o <<" ">>,
             page |-> line.page] >>
    ELSE <<>>

\* the entry of one line, or nothing
HeadingOf(line, body_size) ==
    IF is_likely_heading(line.text, line.size, line.bold, body_size)
    THEN Bind(simple_heading_detection(line.text, line.size, line.bold, body_size), LAMBDA level :
            IF level # None
            THEN << [level |-> level, text |-> Strip(line.text) \o <<" ">>, page |-> line.page] >>
            ELSE <<>>)
    ELSE <<>>

\* the loop over all_lines that fills headings, from the i-th line on
RECURSIVE FindHeadingsFrom(_, _, _)
FindHeadingsFrom(lines, body_size, i) ==
    IF i > Len(lines) THEN <<>>
    ELSE HeadingOf(lines[i], body_size) \o FindHeadingsFrom(lines, body_size, i + 1)

FindHeadings(lines, body_size) == FindHeadingsFrom(lines, body_size, 1)

\* a changed KeyLess: the level is a part of the sort key, between the page and the text
KeyLess_LevelAware(h1, h2) ==
    LET No(level) == CHOOSE n \in 1..4 : <<"H1", "H2", "H3", "H4">>[n] = level
    IN \/ h1.page < h2.page
       \/ h1.page = h2.page /\ No(h1.level) < No(h2.level)
       \/ h1.page = h2.page /\ h1.level = h2.level /\ StrLess(h1.text, h2.text)

\* (x["page"], x["text"]) of one entry is less than that of another
KeyLess(h1, h2) == h1.page < h2.page \/ (h1.page = h2.page /\ StrLess(h1.text, h2.text))

\* headings.sort(key=lambda x: (x["page"], x["text"])): a stable sort; the place
\* of an entry is the number of the entries that go before it, which are those of
\* a smaller key and those of the same key that stand before it
SortHeadings(headings) ==
    LET Before(j, i) ==
            \/ KeyLess(headings[j], headings[i])
            \/ ~KeyLess(headings[i], headings[j]) /\ j < i
        Place(i) == 1 + Cardinality({j \in 1..Len(headings) : Before(j, i)})
    IN [p \in 1..Len(headings) |-> headings[CHOOSE i \in 1..Len(headings) : Place(i) = p]]

\* a changed DedupKey: the page is no part of the key
DedupKey_NoPage(h) == <<h.level, Strip(h.text)>>

\* key = (heading["level"], heading["text"].strip(), heading["page"])
DedupKey(h) == <<h.level, Strip(h.text), h.page>>

\* the loop over the sorted headings with the set seen, from the i-th on
RECURSIVE DeduplicateFrom(_, _, _)
DeduplicateFrom(headings, seen, i) ==
    IF i > Len(headings) THEN <<>>
    ELSE IF DedupKey(headings[i]) \in seen THEN DeduplicateFrom(headings, seen, i + 1)
    ELSE <<headings[i]>> \o DeduplicateFrom(headings, seen \cup {DedupKey(headings[i])}, i + 1)

\* the sort, and the loop that fills final_headings
SortAndDeduplicate(headings) ==
    Bind(SortHeadings(headings), LAMBDA sorted : DeduplicateFrom(sorted, {}, 1))

(***************************************************************************)
(* The input: the documents of the batch.  A document is read block by     *)
(* block; every block comes from BlockPool.                                *)
(***************************************************************************)
\* '1. Introduction', 15 characters
tIntroduction == <<"1", ".", " ", "I", "n", "t", "r", "o", "d", "u", "c", "t", "i", "o", "n">>
\* ' FAQ: ', 6 characters
tFaqPadded == <<" ", "F", "A", "Q", ":", " ">>
\* 'Phase II implementation and rollout schedule:', 45 characters
tPhaseColon == <<"P", "h", "a", "s", "e", " ", "I", "I", " ", "i", "m", "p", "l", "e", "m", "e", "n", "t", "a", "t", "i", "o", "n", " ", "a", "n", "d", " ", "r", "o", "l", "l", "o", "u", "t", " ", "s", "c", "h", "e", "d", "u", "l", "e", ":">>
\* 'Topics to be considered by the working group:', 45 characters
tTopicsColon == <<"T", "o", "p", "i", "c", "s", " ", "t", "o", " ", "b", "e", " ", "c", "o", "n", "s", "i", "d", "e", "r", "e", "d", " ", "b", "y", " ", "t", "h", "e", " ", "w", "o", "r", "k", "i", "n", "g", " ", "g", "r", "o", "u", "p", ":">>
\* 'Application ', 12 characters
tApplication == <<"A", "p", "p", "l", "i", "c", "a", "t", "i", "o", "n", " ">>
\* 'form', 4 characters
tForm == <<"f", "o", "r", "m">>
\* 'GRANT OF LTC ADVANCE', 20 characters
tGrant == <<"G", "R", "A", "N", "T", " ", "O", "F", " ", "L", "T", "C", " ", "A", "D", "V", "A", "N", "C", "E">>
\* 'Lorem ipsum dolor sit amet', 26 characters
tLorem == <<"L", "o", "r", "e", "m", " ", "i", "p", "s", "u", "m", " ", "d", "o", "l", "o", "r", " ", "s", "i", "t", " ", "a", "m", "e", "t">>
\* 'FAQ:', 4 characters
tFaq == <<"F", "A", "Q", ":">>
\* '7', 1 characters
tSeven == <<"7">>

Span(text, size, flags) == [text |-> text, size |-> size, flags |-> flags]

\* a line of one span
RawLine(text, size, flags, y0) ==
    [spans |-> <<Span(text, size, flags)>>, bbox |-> <<72, y0, 540, y0 + 14>>]

\* a text block of one line
TextBlock(line) == [type |-> 0, lines |-> <<line>>]

\* a text block of twenty lines of body text in 11pt
BodyBlock == [type |-> 0, lines |-> [i \in 1..20 |-> RawLine(tLorem, 22, 0, 300)]]

\* a text block none of whose lines is kept: a line without spans, a line of one character
EmptyBlock ==
    [type |-> 0, lines |-> << [spans |-> <<>>, bbox |-> <<72, 100, 540, 114>>], RawLine(tSeven, 22, 0, 100) >>]

\* an image block: it has no field "lines"
ImageBlock == [type |-> 1]

\* sizes are in half points; flag 16 is bold
BlockPool ==
    { TextBlock(RawLine(tIntroduction, 28, 16, 100)),
      TextBlock(RawLine(tFaqPadded, 22, 0, 100)),
      TextBlock(RawLine(tFaq, 36, 20, 50)),
      TextBlock([spans |-> <<Span(tApplication, 28, 16), Span(tForm, 40, 4)>>, bbox |-> <<72, 100, 540, 114>>]),
      TextBlock(RawLine(tPhaseColon, 22, 0, 300)),
      TextBlock(RawLine(tTopicsColon, 28, 16, 300)),
      TextBlock(RawLine(tGrant, 22, 16, 300)),
      BodyBlock,
      EmptyBlock,
      ImageBlock }

\* the stems of the files that input_dir.glob("*.pdf") yields, in its order
Files == << <<"f", "i", "l", "e", "0", "5">>, <<"r", "e", "p", "o", "r", "t">> >>

\* f"{pdf_file.stem}.json"
OutputName(stem) == stem \o <<".", "j", "s", "o", "n">>

(***************************************************************************)
(* The state.                                                              *)
(***************************************************************************)
VARIABLES
    pc,         \* where main() is: "loop", or the stage of process_pdf_simple
    idx,        \* the number of files of the batch that the loop has finished
    page,       \* page_num + 1 of the page being read; 0 outside the page loop
    nblocks,    \* the number of blocks read from the open document
    all_lines,  \* the lines of the document
    is_form,    \* the result of detect_form_document
    title,      \* the local title
    body_size,  \* the local body_size
    headings,   \* the local headings, before the sort
    result,     \* the return value of process_pdf_simple
    outputs,    \* the names of the files written to output_dir
    log         \* what main() has printed: one entry for each line, without the values
                \* of the title and of the number of headings

vars == <<pc, idx, page, nblocks, all_lines, is_form, title, body_size, headings, result, outputs, log>>

locals == <<all_lines, is_form, title, body_size, headings, result>>

\* the stem of the file in process
Stem == Files[idx + 1]

Init ==
    /\ pc = "loop"
    /\ idx = 0
    /\ page = 0
    /\ nblocks = 0
    /\ all_lines = <<>>
    /\ is_form = <<>>
    /\ title = <<>>
    /\ body_size = <<>>
    /\ headings = <<>>
    /\ result = <<>>
    /\ outputs = {}
    /\ log = <<>>

\* the locals of the call are gone, and the loop is at the next file
NextIteration ==
    /\ pc' = "loop"
    /\ idx' = idx + 1
    /\ page' = 0
    /\ nblocks' = 0
    /\ all_lines' = <<>>
    /\ is_form' = <<>>
    /\ title' = <<>>
    /\ body_size' = <<>>
    /\ headings' = <<>>
    /\ result' = <<>>

\* print(f"Processing {pdf_file.name}...")
Processing(stem) == [kind |-> "Processing", file |-> stem]

\* a changed HandleException: the exception is printed and ends the loop
HandleException_EndsLoop(printed) ==
    /\ log' = log \o printed \o << [kind |-> "Error"] >>
    /\ outputs' = outputs
    /\ pc' = "crashed"
    /\ UNCHANGED <<idx, page, nblocks, locals>>

\* except Exception as e: print(f"Error: {e}"), from a call that raised after
\* the lines in printed had been printed
HandleException(printed) ==
    /\ log' = log \o printed \o << [kind |-> "Error"] >>
    /\ outputs' = outputs
    /\ NextIteration

\* the loop takes the next file, and fitz.open(pdf_path) succeeds
OpenDocument ==
    /\ pc = "loop"
    /\ idx < Len(Files)
    /\ pc' = "extract"
    /\ log' = Append(log, Processing(Stem))
    /\ UNCHANGED <<idx, page, nblocks, locals, outputs>>

\* the loop takes the next file, and fitz.open(pdf_path) raises
OpenFails ==
    /\ pc = "loop"
    /\ idx < Len(Files)
    /\ HandleException(<<Processing(Stem)>>)

\* the next iteration of the loop over the pages
NextPage ==
    /\ pc = "extract"
    /\ page < MaxPages
    /\ page' = page + 1
    /\ UNCHANGED <<pc, idx, nblocks, locals, outputs, log>>

\* one block of the page is read, and its lines get the page number
ExtractBlock ==
    /\ pc = "extract"
    /\ page >= 1
    /\ nblocks < MaxBlocks
    /\ \E block \in BlockPool :
          all_lines' = all_lines \o extract_simple_lines(block, page)
    /\ nblocks' = nblocks + 1
    /\ UNCHANGED <<pc, idx, page, is_form, title, body_size, headings, result, outputs, log>>

\* reading a page raises
ExtractFails ==
    /\ pc = "extract"
    /\ page >= 1
    /\ HandleException(<<>>)

\* the page loop ends: doc.close()
CloseDocument ==
    /\ pc = "extract"
    /\ pc' = "check"
    /\ page' = 0
    /\ nblocks' = 0
    /\ UNCHANGED <<idx, locals, outputs, log>>

\* if not all_lines: return {"title": pdf_path.stem, "outline": []}
ReturnEmpty ==
    /\ pc = "check"
    /\ all_lines = <<>>
    /\ result' = << [title |-> Stem, outline |-> <<>>] >>
    /\ pc' = "write"
    /\ UNCHANGED <<idx, page, nblocks, all_lines, is_form, title, body_size, headings, outputs, log>>

\* a changed FormCheck: the body size is computed along with the form check
FormCheck_BodySizeFirst ==
    /\ pc = "check"
    /\ all_lines # <<>>
    /\ body_size' = <<get_body_size(all_lines)>>
    /\ is_form' = <<detect_form_document(all_lines)>>
    /\ pc' = "title"
    /\ UNCHANGED <<idx, page, nblocks, all_lines, title, headings, result, outputs, log>>

\* if detect_form_document(all_lines):
FormCheck ==
    /\ pc = "check"
    /\ all_lines # <<>>
    /\ is_form' = <<detect_form_document(all_lines)>>
    /\ pc' = "title"
    /\ UNCHANGED <<idx, page, nblocks, all_lines, title, body_size, headings, result, outputs, log>>

\* a changed TitleOfForm: the branch of a form does not return
TitleOfForm_NoReturn ==
    /\ pc = "title"
    /\ is_form[1]
    /\ title' = <<simple_title_extraction(FirstPage(all_lines), Stem)>>
    /\ pc' = "body"
    /\ UNCHANGED <<idx, page, nblocks, all_lines, is_form, body_size, headings, result, outputs, log>>

\* the branch of a form: the title, and the return with an empty outline
TitleOfForm ==
    /\ pc = "title"
    /\ is_form[1]
    /\ title' = <<simple_title_extraction(FirstPage(all_lines), Stem)>>
    /\ result' = << [title |-> title'[1], outline |-> <<>>] >>
    /\ pc' = "write"
    /\ UNCHANGED <<idx, page, nblocks, all_lines, is_form, body_size, headings, outputs, log>>

\* the title of a document that is no form
ExtractTitle ==
    /\ pc = "title"
    /\ ~is_form[1]
    /\ title' = <<simple_title_extraction(FirstPage(all_lines), Stem)>>
    /\ pc' = "body"
    /\ UNCHANGED <<idx, page, nblocks, all_lines, is_form, body_size, headings, result, outputs, log>>

\* body_size = get_body_size(all_lines)
BodySize ==
    /\ pc = "body"
    /\ body_size' = <<get_body_size(all_lines)>>
    /\ pc' = "classify"
    /\ UNCHANGED <<idx, page, nblocks, all_lines, is_form, title, headings, result, outputs, log>>

\* the loop over all_lines that fills headings
Classify ==
    /\ pc = "classify"
    /\ headings' = <<FindHeadings(all_lines, body_size[1])>>
    /\ pc' = "assemble"
    /\ UNCHANGED <<idx, page, nblocks, all_lines, is_form, title, body_size, result, outputs, log>>

\* the sort, the deduplication and the return
Assemble ==
    /\ pc = "assemble"
    /\ result' = << [title |-> title[1], outline |-> SortAndDeduplicate(headings[1])] >>
    /\ pc' = "write"
    /\ UNCHANGED <<idx, page, nblocks, all_lines, is_form, title, body_size, headings, outputs, log>>

\* main() writes the result to output_dir / f"{pdf_file.stem}.json"
WriteOutput ==
    /\ pc = "write"
    /\ outputs' = outputs \cup {OutputName(Stem)}
    /\ log' = log \o << [kind |-> "Title"], [kind |-> "Headings"] >>
    /\ NextIteration

\* the loop over the files ends
Finish ==
    /\ pc = "loop"
    /\ idx = Len(Files)
    /\ pc' = "done"
    /\ UNCHANGED <<idx, page, nblocks, locals, outputs, log>>

Next ==
    \/ OpenDocument
    \/ OpenFails
    \/ NextPage
    \/ ExtractBlock
    \/ ExtractFails
    \/ CloseDocument
    \/ ReturnEmpty
    \/ FormCheck
    \/ TitleOfForm
    \/ ExtractTitle
    \/ BodySize
    \/ Classify
    \/ Assemble
    \/ WriteOutput
    \/ Finish

Spec == Init /\ [][Next]_vars

\* the loop is sequential code: a step that can be taken is taken
FairSpec == Spec /\ WF_vars(Next)

(***************************************************************************)
(* The properties.  In a state with pc = "write" the call of               *)
(* process_pdf_simple has returned: result is bound, and the lines and     *)
(* the locals it was computed from are still in the state.                 *)
(***************************************************************************)
Returned == pc = "write"

Outline == result[1].outline

\* the line would be an entry of the outline, were it not for the gate
HeadingLike(line, body) == simple_heading_detection(line.text, line.size, line.bold, body) # None

\* C1: a document that detect_form_document classifies as a form (two of the three
\* keyword phrases in the lowercased text of its first 20 lines) is returned with
\* an empty outline, whatever heading-like lines it holds, and with the title that
\* simple_title_extraction computes from the lines of page 1.
C1_FormHasEmptyOutline ==
    (Returned /\ all_lines # <<>> /\ detect_form_document(all_lines)) =>
        /\ Outline = <<>>
        /\ result[1].title = simple_title_extraction(FirstPage(all_lines), Stem)

\* a form that holds a line which passes the gate and has a level
C1_Witness ==
    /\ Returned /\ all_lines # <<>> /\ detect_form_document(all_lines)
    /\ \E i \in 1..Len(all_lines) : HeadingOf(all_lines[i], get_body_size(all_lines)) # <<>>
    /\ Outline = <<>>

\* C2: every entry of the final outline comes from a line that is_likely_heading
\* accepts; a line the gate rejects yields no entry, whatever level
\* simple_heading_detection has for it.
C2_GateRejectedNeverInOutline ==
    Returned =>
        \A k \in 1..Len(Outline) :
            /\ body_size # <<>>
            /\ \E i \in 1..Len(all_lines) :
                  /\ all_lines[i].page = Outline[k].page
                  /\ Strip(all_lines[i].text) \o <<" ">> = Outline[k].text
                  /\ is_likely_heading(all_lines[i].text, all_lines[i].size, all_lines[i].bold, body_size[1])

\* a line that has a level and that the gate rejects, beside an entry of another line
C2_Witness ==
    /\ Returned /\ body_size # <<>>
    /\ Len(Outline) >= 1
    /\ \E i \in 1..Len(all_lines) :
          /\ HeadingLike(all_lines[i], body_size[1])
          /\ ~is_likely_heading(all_lines[i].text, all_lines[i].size, all_lines[i].bold, body_size[1])
          /\ \A k \in 1..Len(Outline) :
                Outline[k].text # Strip(all_lines[i].text) \o <<" ">>

\* C3: the line "1. Introduction" in 14pt bold on page 1 of a document that is no
\* form and has the body size 11 passes the gate, gets the level H1 and yields the
\* entry {level: H1, text: "1. Introduction ", page: 1}.
C3_Scenario1 ==
    ( /\ Returned /\ is_form = <<FALSE>> /\ body_size = <<11>>
      /\ \E i \in 1..Len(all_lines) :
            /\ all_lines[i].text = tIntroduction
            /\ all_lines[i].size = 28
            /\ all_lines[i].bold
            /\ all_lines[i].page = 1 ) =>
        /\ is_likely_heading(tIntroduction, 28, TRUE, 11)
        /\ simple_heading_detection(tIntroduction, 28, TRUE, 11) = "H1"
        /\ \E k \in 1..Len(Outline) :
              Outline[k] = [level |-> "H1", text |-> tIntroduction \o <<" ">>, page |-> 1]

\* C4: the outline is ordered by the page and then by the text, whatever the levels.
C4_OutlineSorted ==
    Returned =>
        \A i, j \in 1..Len(Outline) :
            i < j =>
                /\ Outline[i].page <= Outline[j].page
                /\ Outline[i].page = Outline[j].page => ~StrLess(Outline[j].text, Outline[i].text)

\* two entries of one page and of different levels, which the sort has exchanged
C4_Witness ==
    /\ Returned /\ headings # <<>>
    /\ Len(Outline) = 2
    /\ Outline[1].page = Outline[2].page
    /\ Outline[1].level # Outline[2].level
    /\ headings[1] = <<Outline[2], Outline[1]>>

\* the (level, trimmed text, page) of an accepted triple
C5_Key(h) == <<h.level, Strip(h.text), h.page>>

\* C5: of the accepted triples of one (level, trimmed text, page) exactly one is in
\* the outline, and no triple whose key is its own is dropped.
C5_Deduplicated ==
    (Returned /\ headings # <<>>) =>
        /\ \A i, j \in 1..Len(Outline) : C5_Key(Outline[i]) = C5_Key(Outline[j]) => i = j
        /\ \A i \in 1..Len(headings[1]) :
              \E k \in 1..Len(Outline) : C5_Key(Outline[k]) = C5_Key(headings[1][i])
        /\ \A k \in 1..Len(Outline) :
              \E i \in 1..Len(headings[1]) : headings[1][i] = Outline[k]

\* two accepted triples of one key, from two lines that differ, and one entry
C5_Witness ==
    /\ Returned /\ headings # <<>>
    /\ Len(headings[1]) = 2
    /\ C5_Key(headings[1][1]) = C5_Key(headings[1][2])
    /\ all_lines[1] # all_lines[2]
    /\ Len(Outline) = 1

\* the index in log of the line "Processing ..." of the k-th file
C6_Start(k) == CHOOSE n \in 1..Len(log) : log[n] = Processing(Files[k])

\* the run of the k-th file ended in the handler
C6_Failed(k) == log[C6_Start(k) + 1].kind = "Error"

\* every file was taken once, in the order of the batch
C6_AllTaken ==
    /\ \A k \in 1..Len(Files) :
          Cardinality({n \in 1..Len(log) : log[n] = Processing(Files[k])}) = 1
    /\ \A k \in 1..(Len(Files) - 1) : C6_Start(k) < C6_Start(k + 1)

\* C6: the loop of main() reaches the end of the batch whichever files fail; a
\* file whose processing raised has its error printed and no output file, and
\* every other file has its output file, named after its stem.
C6_BatchSurvivesFailures ==
    /\ <>(pc = "done")
    /\ [](pc = "done" =>
            /\ C6_AllTaken
            /\ \A k \in 1..Len(Files) : C6_Failed(k) <=> OutputName(Files[k]) \notin outputs
            /\ outputs \subseteq {OutputName(Files[k]) : k \in 1..Len(Files)})

\* the end of a batch whose first file failed and whose last file was written
C6_Witness ==
    /\ pc = "done"
    /\ C6_Failed(1)
    /\ ~C6_Failed(Len(Files))
    /\ OutputName(Files[Len(Files)]) \in outputs

\* the text ends with ":", has 40 to 49 characters, does not start with "for each"
\* and matches none of the rules before the colon rule
C7_ColonCase(text) ==
    /\ EndsWith(Strip(text), <<":">>)
    /\ Len(Strip(text)) >= 40 /\ Len(Strip(text)) <= 49
    /\ ~StartsWith(Lower(Strip(text)), <<"f", "o", "r", " ", "e", "a", "c", "h">>)
    /\ ~NUMBERED_PATTERN(Strip(text))
    /\ ~SUB_NUMBERED_PATTERN(Strip(text))
    /\ ~SUB_SUB_NUMBERED_PATTERN(Strip(text))
    /\ ~APPENDIX_PATTERN(Strip(text))
    /\ Lower(Strip(text)) \notin KNOWN_H1_HEADINGS

\* the entries of the outline that have the page and the text of the line
C7_Entries(line) ==
    {k \in 1..Len(Outline) : Outline[k].page = line.page /\ Outline[k].text = Strip(line.text) \o <<" ">>}

C7_Expected(line, body) ==
    IF StartsWith(Lower(Strip(line.text)), <<"p", "h", "a", "s", "e", " ">>) THEN "H3"
    ELSE IF line.bold /\ line.size > 2 * (body + 2) THEN "H2"
    ELSE None

C8_BodySizeBeforeFormCheck ==
    (is_form # <<>> \/ title # <<>>) => body_size # <<>>

\* C8, amended: the stages run one after the other in the order extract, form
\* check, title, body size, classify, assemble; the body size is computed after
\* the form check and the title, and for a document that is no form only.
C8_StageOrder ==
    /\ is_form # <<>> => pc \in {"title", "body", "classify", "assemble", "write"}
    /\ title # <<>> => is_form # <<>> /\ pc \in {"body", "classify", "assemble", "write"}
    /\ body_size # <<>> => title # <<>> /\ is_form = <<FALSE>> /\ pc \in {"classify", "assemble", "write"}
    /\ headings # <<>> => body_size # <<>> /\ pc \in {"assemble", "write"}
    /\ result # <<>> =>
          /\ pc = "write"
          /\ \/ all_lines = <<>> /\ is_form = <<>>
             \/ is_form = <<TRUE>> /\ title # <<>> /\ body_size = <<>>
             \/ headings # <<>>
    /\ pc = "title" => is_form # <<>> /\ title = <<>>
    /\ pc = "body" => title # <<>> /\ body_size = <<>>
    /\ pc = "classify" => body_size # <<>> /\ headings = <<>>
    /\ pc = "assemble" => headings # <<>> /\ result = <<>>

\* the title is bound and the body size is not yet
C8_Witness == pc = "body" /\ is_form = <<FALSE>> /\ title # <<>> /\ body_size = <<>> /\ Len(all_lines) >= 2

\* the lines of page 1 that qualify for the title
C9_Qualifying ==
    {i \in 1..Len(all_lines) :
        all_lines[i].page = 1 /\ all_lines[i].bbox[2] < 200 /\ Len(all_lines[i].text) >= 5}

C9_Score(i) == all_lines[i].size + (IF all_lines[i].bold THEN 20 ELSE 0)

C10_Fonts == {<<size, bold, body>> : size \in {22, 28, 40}, bold \in BOOLEAN, body \in {10, 11, 14}}

C10_Level(text, font) == simple_heading_detection(text, font[1], font[2], font[3])

\* C10: the level is a function of the text: the levels that
\* simple_heading_detection has for one text under any size, bold flag and body
\* size are one level; the outline has no two entries of one page and text, and
\* is strictly increasing in (page, text).
C10_LevelIsFunctionOfText ==
    Returned =>
        /\ \A text \in {all_lines[i].text : i \in 1..Len(all_lines)} :
              Cardinality({C10_Level(text, f) : f \in C10_Fonts} \ {None}) <= 1
        /\ \A i, j \in 1..Len(Outline) :
              i < j =>
                  \/ Outline[i].page < Outline[j].page
                  \/ Outline[i].page = Outline[j].page /\ StrLess(Outline[i].text, Outline[j].text)

\* a text that has its level by the font rule and one that has it by a text rule
\* also in a large bold font, in an outline of two entries of one page
C10_Witness ==
    /\ Returned /\ Len(Outline) = 2
    /\ Outline[1].page = Outline[2].page
    /\ \E i \in 1..Len(all_lines) :
          /\ C10_Level(all_lines[i].text, <<40, TRUE, 11>>) = "H2"
          /\ C10_Level(all_lines[i].text, <<22, FALSE, 11>>) = None
    /\ \E i \in 1..Len(all_lines) :
          /\ C10_Level(all_lines[i].text, <<40, TRUE, 11>>) = "H3"
          /\ C10_Level(all_lines[i].text, <<22, FALSE, 11>>) = "H3"

====
